---- MODULE Spec2Model ----
(***************************************************************************)
(* The scrimmage lifecycle of battlecode/api/views.py (ScrimmageViewSet),  *)
(* with the parts of SubmissionViewSet and of the League/Team records it   *)
(* reads.  One league.  Every handler is one action of Spec; SpecConc      *)
(* splits accept at its database accesses to interleave two requests.      *)
(* Behaviours start from a league with three one-member teams, two of      *)
(* which have uploaded a submission.                                       *)
(***************************************************************************)
EXTENDS Integers, Sequences, FiniteSets, TLC

\* ---------------------------------------------------------------- bounds
MaxSubs == 1        \* submissions uploaded in a behaviour
MaxScrims == 1      \* scrimmages created in a behaviour
MaxReqs == 2        \* accept requests in flight together (SpecConc)
MaxTeams == 2       \* teams created in a behaviour (SpecTeam, SpecTeamConc)
MaxTeamSize == 4    \* "Team has max number of users"
MaxGames == 2       \* games of the tournament a bracket is asked for (SpecBracket)
MaxMatches == 3     \* "each game consists of a list of at most 3 matches"

Users == 1..3       \* user ids
TeamIds == 1..3     \* team ids
RequestIds == 1..4  \* the red_team / blue_team ids of a request; 4 is nobody's id
MapIds == 1..2      \* map 1 is visible, map 2 is hidden
TeamUsers == 1..5   \* the users of the team requests of SpecTeam
TeamNames == 1..2   \* the names team requests ask for
LeagueUsers == {4}  \* the user who makes the team requests of SpecLeague

None == 0           \* Python's None / a null foreign key
Unset == "unset"    \* a key create() leaves out of the serializer's data

\* The Submission table when a behaviour starts: teams 1 and 2 have uploaded
\* one submission each, team 3 none.
InitialSubmissions ==
    <<[team |-> 1, submitted_at |-> 1], [team |-> 2, submitted_at |-> 2]>>
InternalError == -1 \* get_team raising InternalError

VARIABLES
    league,     \* [active, submissions_enabled]
    teams,      \* Team table: id -> [name, users, deleted, auto_accept_ranked,
                \*                     auto_accept_unranked]
    subs,       \* Submission table: sequence of [team, submitted_at], id = index
    scrims,     \* Scrimmage table: sequence of records, id = index
    resp,       \* the response of the last request
    reqs,       \* requests in flight (SpecConc, SpecTeamConc)
    tournament  \* the Tournament row a bracket request names (SpecBracket)

vars == <<league, teams, subs, scrims, resp, reqs, tournament>>

\* ------------------------------------------------------------ the tables
\* The time of the next insert: requested_at / submitted_at are set on insert.
Now == Len(subs) + Len(scrims) + 1

\* Map.objects.filter(league_id=league_id, hidden=False).get(pk=map_id)
get_map(map_id) == IF map_id = 1 THEN 1 ELSE None

\* Team.objects.filter(league_id=league_id, users__user_id=user_id)
TeamsOfUser(user_id) == {t \in DOMAIN teams : user_id \in teams[t].users}

get_team(user_id) ==
    LET found == TeamsOfUser(user_id)
    IN  IF Cardinality(found) = 0 THEN None
        ELSE IF Cardinality(found) > 1 THEN InternalError
        ELSE CHOOSE t \in found : TRUE

\* Submission.objects.filter(team_id=team_id).order_by('-submitted_at')[0]
SubsOfTeam(team_id) == {i \in DOMAIN subs : subs[i].team = team_id}

get_submission(team_id) ==
    LET mine == SubsOfTeam(team_id)
    IN  IF mine = {} THEN None
        ELSE CHOOSE i \in mine : \A j \in mine : subs[j].submitted_at <= subs[i].submitted_at

\* ------------------------------------------------------------ responses
Response(op, team, sid, code, msg) ==
    [op |-> op, team |-> team, sid |-> sid, code |-> code, msg |-> msg]

\* get_permissions of ScrimmageViewSet and SubmissionViewSet for an unsafe
\* method: 0 when permitted, otherwise the status code of the exception.
\* The gate without its test of the league's active flag.
LeagueOpenSubmissionsOnly == league.submissions_enabled

LeagueOpen == league.active /\ league.submissions_enabled

\* The permission check with a gate on the league's active flag alone.
DeniedActiveOnly(user) ==
    IF ~league.active THEN 403
    ELSE IF get_team(user) = None THEN 403
    ELSE IF get_team(user) = InternalError THEN 500
    ELSE 0

Denied(user) ==
    IF ~LeagueOpen THEN 403
    ELSE IF get_team(user) = None THEN 403
    ELSE IF get_team(user) = InternalError THEN 500
    ELSE 0

\* ------------------------------------------------- SubmissionViewSet.create
SubmissionCreate(user) ==
    /\ Len(subs) < Len(InitialSubmissions) + MaxSubs
    /\ IF Denied(user) # 0
       THEN /\ resp' = Response("submit", None, None, Denied(user), "denied")
            /\ UNCHANGED subs
       ELSE /\ subs' = Append(subs, [team |-> get_team(user), submitted_at |-> Now])
            /\ resp' = Response("submit", get_team(user), Len(subs) + 1, 201, "")
    /\ UNCHANGED <<league, teams, scrims, reqs, tournament>>

\* --------------------------------------------------- ScrimmageViewSet.create
DefaultStatus == "pending"

\* The record serializer.save() inserts for the data create() hands it:
\* status and the submission references default when data leaves them out.
NewScrimmage(data) ==
    [red_team |-> data.red_team, blue_team |-> data.blue_team, map |-> data.map,
     ranked |-> data.ranked, requested_by |-> data.requested_by,
     status |-> IF data.status = Unset THEN DefaultStatus ELSE data.status,
     red_submission |-> data.red_submission,
     blue_submission |-> data.blue_submission, requested_at |-> Now]

\* The check with the two flags taken for each other.
AutoAcceptsSwapped(that_team, ranked) ==
    \/ ranked /\ teams[that_team].auto_accept_unranked
    \/ ~ranked /\ teams[that_team].auto_accept_ranked

AutoAccepts(that_team, ranked) ==
    \/ ranked /\ teams[that_team].auto_accept_ranked
    \/ ~ranked /\ teams[that_team].auto_accept_unranked

\* The (response, data) create() arrives at for team `team`; data = None when
\* it returns before the insert.
CreateOutcome(team, red_team_id, blue_team_id, map_id, ranked) ==
    LET mine == team = blue_team_id \/ team = red_team_id
        red_team == IF team = blue_team_id THEN get_team(red_team_id) ELSE team
        blue_team == IF team = blue_team_id THEN team ELSE get_team(blue_team_id)
        that_team == IF team = blue_team_id THEN red_team ELSE blue_team
        red_submission == get_submission(red_team_id)
        blue_submission == get_submission(blue_team_id)
    IN  IF ~mine
            THEN [code |-> 400, msg |-> "Scrimmage does not include my team", data |-> None]
        ELSE IF that_team = InternalError
            THEN [code |-> 400, msg |-> "Unknown Error", data |-> None]
        ELSE IF that_team = None
            THEN [code |-> 404, msg |-> "Requested team does not exist", data |-> None]
        ELSE IF get_map(map_id) = None
            THEN [code |-> 404, msg |-> "Requested map does not exist", data |-> None]
        ELSE IF red_submission = None \/ blue_submission = None
            THEN [code |-> 400, msg |-> "Teams do not have submissions", data |-> None]
        ELSE [code |-> 201, msg |-> "",
              data |-> [red_team |-> red_team, blue_team |-> blue_team,
                        map |-> get_map(map_id), ranked |-> ranked,
                        requested_by |-> team,
                        status |-> IF AutoAccepts(that_team, ranked)
                                   THEN "queued" ELSE Unset,
                        red_submission |-> IF AutoAccepts(that_team, ranked)
                                           THEN red_submission ELSE None,
                        blue_submission |-> IF AutoAccepts(that_team, ranked)
                                            THEN blue_submission ELSE None]]

ScrimmageCreate(user, red_team_id, blue_team_id, map_id, ranked) ==
    /\ Len(scrims) < MaxScrims
    /\ IF Denied(user) # 0
       THEN /\ resp' = Response("create", None, None, Denied(user), "denied")
            /\ UNCHANGED scrims
       ELSE LET out == CreateOutcome(get_team(user), red_team_id, blue_team_id, map_id, ranked)
            IN  IF out.code = 201
                THEN /\ scrims' = Append(scrims, NewScrimmage(out.data))
                     /\ resp' = Response("create", get_team(user), Len(scrims) + 1, 201, "")
                ELSE /\ resp' = Response("create", get_team(user), None, out.code, out.msg)
                     /\ UNCHANGED scrims
    /\ UNCHANGED <<league, teams, subs, reqs, tournament>>

\* ----------------------------------------------- accept / reject / cancel
\* A lookup in the whole Scrimmage table, without the filter on the team.
VisibleToAll(team, pk) == pk \in DOMAIN scrims

\* self.get_queryset().get(pk=pk): the row, if `team` is its red or blue team.
Visible(team, pk) ==
    /\ pk \in DOMAIN scrims
    /\ scrims[pk].red_team = team \/ scrims[pk].blue_team = team

\* accept() without its check of the status.
AcceptOutcomeNoPendingCheck(team, scrimmage) ==
    IF scrimmage.requested_by = team
        THEN [code |-> 400, msg |-> "Cannot accept an outgoing scrimmage."]
    ELSE IF get_submission(scrimmage.red_team) = None
            \/ get_submission(scrimmage.blue_team) = None
        THEN [code |-> 500, msg |-> "Teams should have submissions if queued"]
    ELSE [code |-> 200, msg |-> ""]

\* accept() without its check of the two submissions it looked up.
AcceptOutcomeNoSubmissionCheck(team, scrimmage) ==
    IF scrimmage.requested_by = team
        THEN [code |-> 400, msg |-> "Cannot accept an outgoing scrimmage."]
    ELSE IF scrimmage.status # "pending"
        THEN [code |-> 400, msg |-> "Scrimmage is not pending."]
    ELSE [code |-> 200, msg |-> ""]

\* The checks accept() makes on the row it read, then its two lookups.
AcceptOutcome(team, scrimmage) ==
    IF scrimmage.requested_by = team
        THEN [code |-> 400, msg |-> "Cannot accept an outgoing scrimmage."]
    ELSE IF scrimmage.status # "pending"
        THEN [code |-> 400, msg |-> "Scrimmage is not pending."]
    ELSE IF get_submission(scrimmage.red_team) = None
            \/ get_submission(scrimmage.blue_team) = None
        THEN [code |-> 500, msg |-> "Teams should have submissions if queued"]
    ELSE [code |-> 200, msg |-> ""]

\* accept() looking the red team's submission up for both sides.
AcceptSavedRedTwice(scrimmage) ==
    [scrimmage EXCEPT !.status = "queued",
                      !.red_submission = get_submission(scrimmage.red_team),
                      !.blue_submission = get_submission(scrimmage.red_team)]

\* accept() saving the status and not the submissions it looked up.
AcceptSavedStatusOnly(scrimmage) == [scrimmage EXCEPT !.status = "queued"]

\* scrimmage.save() of accept(): the instance's fields are written to the row.
AcceptSaved(scrimmage) ==
    [scrimmage EXCEPT !.status = "queued",
                      !.red_submission = get_submission(scrimmage.red_team),
                      !.blue_submission = get_submission(scrimmage.blue_team)]

ScrimmageAccept(user, pk) ==
    /\ IF Denied(user) # 0
       THEN /\ resp' = Response("accept", None, pk, Denied(user), "denied")
            /\ UNCHANGED scrims
       ELSE LET team == get_team(user)
            IN  IF ~Visible(team, pk)
                THEN /\ resp' = Response("accept", team, pk, 404, "Scrimmage does not exist.")
                     /\ UNCHANGED scrims
                ELSE LET out == AcceptOutcome(team, scrims[pk])
                     IN  /\ resp' = Response("accept", team, pk, out.code, out.msg)
                         /\ scrims' = IF out.code = 200
                                      THEN [scrims EXCEPT ![pk] = AcceptSaved(scrims[pk])]
                                      ELSE scrims
    /\ UNCHANGED <<league, teams, subs, reqs, tournament>>

RejectOutcome(team, scrimmage) ==
    IF scrimmage.requested_by = team
        THEN [code |-> 400, msg |-> "Cannot reject an outgoing scrimmage."]
    ELSE IF scrimmage.status # "pending"
        THEN [code |-> 400, msg |-> "Scrimmage is not pending."]
    ELSE [code |-> 200, msg |-> ""]

\* reject() assigns scrimmage.status = 'rejected' on the instance it read and
\* serializes it; it never calls save(), so the row is what it was.
RejectStored(scrimmage) == scrimmage

ScrimmageReject(user, pk) ==
    /\ IF Denied(user) # 0
       THEN /\ resp' = Response("reject", None, pk, Denied(user), "denied")
            /\ UNCHANGED scrims
       ELSE LET team == get_team(user)
            IN  IF ~Visible(team, pk)
                THEN /\ resp' = Response("reject", team, pk, 404, "Scrimmage does not exist.")
                     /\ UNCHANGED scrims
                ELSE LET out == RejectOutcome(team, scrims[pk])
                     IN  /\ resp' = Response("reject", team, pk, out.code, out.msg)
                         /\ scrims' = IF out.code = 200
                                      THEN [scrims EXCEPT ![pk] = RejectStored(scrims[pk])]
                                      ELSE scrims
    /\ UNCHANGED <<league, teams, subs, reqs, tournament>>

\* cancel() without its check of the acting team.
CancelOutcomeAnyActor(team, scrimmage) ==
    IF scrimmage.status # "pending"
        THEN [code |-> 400, msg |-> "Scrimmage is not pending."]
    ELSE [code |-> 200, msg |-> ""]

CancelOutcome(team, scrimmage) ==
    IF scrimmage.requested_by # team
        THEN [code |-> 400, msg |-> "Cannot cancel an incoming scrimmage."]
    ELSE IF scrimmage.status # "pending"
        THEN [code |-> 400, msg |-> "Scrimmage is not pending."]
    ELSE [code |-> 200, msg |-> ""]

\* cancel() likewise assigns 'cancelled' on the instance and never saves.
CancelStored(scrimmage) == scrimmage

ScrimmageCancel(user, pk) ==
    /\ IF Denied(user) # 0
       THEN /\ resp' = Response("cancel", None, pk, Denied(user), "denied")
            /\ UNCHANGED scrims
       ELSE LET team == get_team(user)
            IN  IF ~Visible(team, pk)
                THEN /\ resp' = Response("cancel", team, pk, 404, "Scrimmage does not exist.")
                     /\ UNCHANGED scrims
                ELSE LET out == CancelOutcome(team, scrims[pk])
                     IN  /\ resp' = Response("cancel", team, pk, out.code, out.msg)
                         /\ scrims' = IF out.code = 200
                                      THEN [scrims EXCEPT ![pk] = CancelStored(scrims[pk])]
                                      ELSE scrims
    /\ UNCHANGED <<league, teams, subs, reqs, tournament>>

\* ------------------------------------------- accept, one database access a step
\* A request in flight holds the instance accept() read (scrimmage), the
\* submissions it has looked up, and where it is: "red", "blue", "save" or
\* "done" (with the status code it returned).
Request(team, pk, pc, scrimmage, red, blue, code) ==
    [team |-> team, pk |-> pk, pc |-> pc, scrimmage |-> scrimmage,
     red_submission |-> red, blue_submission |-> blue, code |-> code]

\* get_permissions, self.get_queryset().get(pk=pk) and the two checks on the
\* instance read; scrimmage.status = 'queued' is set on the instance only.
AcceptRead(user, pk) ==
    /\ Len(reqs) < MaxReqs
    /\ IF Denied(user) # 0
       THEN /\ reqs' = Append(reqs, Request(None, pk, "done", None, None, None, Denied(user)))
            /\ resp' = Response("accept", None, pk, Denied(user), "denied")
       ELSE LET team == get_team(user)
            IN  IF ~Visible(team, pk)
                THEN /\ reqs' = Append(reqs, Request(team, pk, "done", None, None, None, 404))
                     /\ resp' = Response("accept", team, pk, 404, "Scrimmage does not exist.")
                ELSE IF scrims[pk].requested_by = team
                THEN /\ reqs' = Append(reqs, Request(team, pk, "done", None, None, None, 400))
                     /\ resp' = Response("accept", team, pk, 400,
                                         "Cannot accept an outgoing scrimmage.")
                ELSE IF scrims[pk].status # "pending"
                THEN /\ reqs' = Append(reqs, Request(team, pk, "done", None, None, None, 400))
                     /\ resp' = Response("accept", team, pk, 400, "Scrimmage is not pending.")
                ELSE /\ reqs' = Append(reqs, Request(team, pk, "red",
                                    [scrims[pk] EXCEPT !.status = "queued"], None, None, 0))
                     /\ UNCHANGED resp
    /\ UNCHANGED <<league, teams, subs, scrims, tournament>>

\* red_submission = self.get_submission(scrimmage.red_team.id)
AcceptRedLookup(r) ==
    /\ r \in DOMAIN reqs
    /\ reqs[r].pc = "red"
    /\ reqs' = [reqs EXCEPT ![r].red_submission = get_submission(reqs[r].scrimmage.red_team),
                            ![r].pc = "blue"]
    /\ UNCHANGED <<league, teams, subs, scrims, resp, tournament>>

\* blue_submission = self.get_submission(scrimmage.blue_team.id), then the
\* check that both were found.
AcceptBlueLookup(r) ==
    /\ r \in DOMAIN reqs
    /\ reqs[r].pc = "blue"
    /\ LET blue == get_submission(reqs[r].scrimmage.blue_team)
       IN  IF reqs[r].red_submission = None \/ blue = None
           THEN /\ reqs' = [reqs EXCEPT ![r].pc = "done", ![r].code = 500]
                /\ resp' = Response("accept", reqs[r].team, reqs[r].pk, 500,
                                    "Teams should have submissions if queued")
           ELSE /\ reqs' = [reqs EXCEPT ![r].blue_submission = blue, ![r].pc = "save"]
                /\ UNCHANGED resp
    /\ UNCHANGED <<league, teams, subs, scrims, tournament>>

\* scrimmage.save(): every field of the instance is written to the row.
AcceptSave(r) ==
    /\ r \in DOMAIN reqs
    /\ reqs[r].pc = "save"
    /\ scrims' = [scrims EXCEPT ![reqs[r].pk] =
                    [reqs[r].scrimmage EXCEPT !.red_submission = reqs[r].red_submission,
                                              !.blue_submission = reqs[r].blue_submission]]
    /\ reqs' = [reqs EXCEPT ![r].pc = "done", ![r].code = 200]
    /\ resp' = Response("accept", reqs[r].team, reqs[r].pk, 200, "")
    /\ UNCHANGED <<league, teams, subs, tournament>>

\* ============================================================ TeamViewSet
\* queryset / get_queryset: the league's teams that are not deleted.
TeamQueryset == {t \in DOMAIN teams : ~teams[t].deleted}

\* The teams that create requests of this behaviour have inserted.
CreatedTeams == {t \in DOMAIN teams : teams[t].name \in TeamNames}

\* self.get_queryset().filter(users__user_id=request.user.id)
OnATeam(user) == \E t \in TeamQueryset : user \in teams[t].users

\* get_permissions for an unsafe method: 0 when permitted.
TeamDenied == IF ~league.active THEN 403 ELSE 0

\* The row serializer.save() inserts for create()'s data.
NewTeam(name, user) ==
    [name |-> name, users |-> {user}, deleted |-> FALSE,
     auto_accept_ranked |-> FALSE, auto_accept_unranked |-> FALSE]

\* The checks of create() before the insert, name = None when the request has none.
TeamCreateOutcome(user, name) ==
    IF name = None
        THEN [code |-> 400, msg |-> "Team name required"]
    ELSE IF OnATeam(user)
        THEN [code |-> 400, msg |-> "Already on a team in this league"]
    ELSE IF \E t \in TeamQueryset : teams[t].name = name
        THEN [code |-> 400, msg |-> "Team with this name already exists"]
    ELSE [code |-> 201, msg |-> ""]

TeamCreate(user, name) ==
    /\ Cardinality(CreatedTeams) < MaxTeams
    /\ IF TeamDenied # 0
       THEN /\ resp' = Response("team_create", None, None, TeamDenied, "denied")
            /\ UNCHANGED teams
       ELSE LET out == TeamCreateOutcome(user, name)
            IN  IF out.code = 201
                THEN /\ teams' = Append(teams, NewTeam(name, user))
                     /\ resp' = Response("team_create", Len(teams) + 1, None, 201, "")
                ELSE /\ resp' = Response("team_create", None, None, out.code, out.msg)
                     /\ UNCHANGED teams
    /\ UNCHANGED <<league, subs, scrims, reqs, tournament>>

\* The join checks without the one on the size of the roster.
TeamJoinOutcomeNoLimit(user, pk, key_ok) ==
    IF OnATeam(user)
        THEN [code |-> 400, msg |-> "Already on a team in this league"]
    ELSE IF ~key_ok
        THEN [code |-> 400, msg |-> "Invalid team key"]
    ELSE [code |-> 200, msg |-> ""]

\* partial_update, op = "join": its checks on the team it read.
TeamJoinOutcome(user, pk, key_ok) ==
    IF OnATeam(user)
        THEN [code |-> 400, msg |-> "Already on a team in this league"]
    ELSE IF ~key_ok
        THEN [code |-> 400, msg |-> "Invalid team key"]
    ELSE IF Cardinality(teams[pk].users) = MaxTeamSize
        THEN [code |-> 400, msg |-> "Team has max number of users"]
    ELSE [code |-> 200, msg |-> ""]

\* team.users.add(request.user.id); team.save()
TeamJoined(team, user) == [team EXCEPT !.users = @ \cup {user}]

TeamJoin(user, pk, key_ok) ==
    /\ IF TeamDenied # 0
       THEN /\ resp' = Response("join", pk, None, TeamDenied, "denied")
            /\ UNCHANGED teams
       ELSE IF pk \notin TeamQueryset
       THEN /\ resp' = Response("join", pk, None, 404, "Team not found")
            /\ UNCHANGED teams
       ELSE LET out == TeamJoinOutcome(user, pk, key_ok)
            IN  /\ resp' = Response("join", pk, None, out.code, out.msg)
                /\ teams' = IF out.code = 200
                            THEN [teams EXCEPT ![pk] = TeamJoined(teams[pk], user)]
                            ELSE teams
    /\ UNCHANGED <<league, subs, scrims, reqs, tournament>>

\* A leave that removes the user and keeps the deleted flag as it was.
TeamLeftKeepsFlag(team, user) == [team EXCEPT !.users = @ \ {user}]

\* team.users.remove(request.user.id); team.deleted = team.users.count() == 0
TeamLeft(team, user) ==
    [team EXCEPT !.users = @ \ {user}, !.deleted = (team.users \ {user}) = {}]

TeamLeave(user, pk) ==
    /\ IF TeamDenied # 0
       THEN /\ resp' = Response("leave", pk, None, TeamDenied, "denied")
            /\ UNCHANGED teams
       ELSE IF pk \notin TeamQueryset
       THEN /\ resp' = Response("leave", pk, None, 404, "Team not found")
            /\ UNCHANGED teams
       ELSE IF user \notin teams[pk].users
       THEN /\ resp' = Response("leave", pk, None, 401, "User not on this team")
            /\ UNCHANGED teams
       ELSE /\ teams' = [teams EXCEPT ![pk] = TeamLeft(teams[pk], user)]
            /\ resp' = Response("leave", pk, None, 200, "")
    /\ UNCHANGED <<league, subs, scrims, reqs, tournament>>

\* op = "update": "Updates the team bio, divisions, or auto-accepting for
\* ranked and unranked scrimmages" through super().partial_update; the
\* request here carries the one field auto_accept_ranked.
TeamUpdate(user, pk, ranked) ==
    /\ IF TeamDenied # 0
       THEN /\ resp' = Response("update", pk, None, TeamDenied, "denied")
            /\ UNCHANGED teams
       ELSE IF pk \notin TeamQueryset
       THEN /\ resp' = Response("update", pk, None, 404, "Team not found")
            /\ UNCHANGED teams
       ELSE IF user \notin teams[pk].users
       THEN /\ resp' = Response("update", pk, None, 401, "User not on this team")
            /\ UNCHANGED teams
       ELSE /\ teams' = [teams EXCEPT ![pk].auto_accept_ranked = ranked]
            /\ resp' = Response("update", pk, None, 200, "")
    /\ UNCHANGED <<league, subs, scrims, reqs, tournament>>

\* Any other op.
TeamInvalidOp(user, pk) ==
    /\ IF TeamDenied # 0
       THEN resp' = Response("invalid_op", pk, None, TeamDenied, "denied")
       ELSE IF pk \notin TeamQueryset
       THEN resp' = Response("invalid_op", pk, None, 404, "Team not found")
       ELSE resp' = Response("invalid_op", pk, None, 400, "Invalid op: join, leave, update")
    /\ UNCHANGED <<league, teams, subs, scrims, reqs, tournament>>

\* ------------------------------------------- team requests, step by step
\* create() and join run without a transaction or a lock: the checks read
\* the tables, and the write comes in a later step of the same request.
TeamRequest(op, user, pk, name, team) ==
    [op |-> op, user |-> user, pk |-> pk, name |-> name, team |-> team]

Without(s, i) == SubSeq(s, 1, i - 1) \o SubSeq(s, i + 1, Len(s))

InFlight(op) == Cardinality({i \in DOMAIN reqs : reqs[i].op = op})

\* create() up to the insert: permission and the checks on the tables.
TeamCreateCheck(user, name) ==
    /\ Len(reqs) < MaxReqs
    /\ Cardinality(CreatedTeams) + InFlight("team_create") < MaxTeams
    /\ IF TeamDenied # 0
       THEN /\ resp' = Response("team_create", None, None, TeamDenied, "denied")
            /\ UNCHANGED reqs
       ELSE LET out == TeamCreateOutcome(user, name)
            IN  IF out.code = 201
                THEN /\ reqs' = Append(reqs, TeamRequest("team_create", user, None, name, None))
                     /\ UNCHANGED resp
                ELSE /\ resp' = Response("team_create", None, None, out.code, out.msg)
                     /\ UNCHANGED reqs
    /\ UNCHANGED <<league, teams, subs, scrims, tournament>>

\* serializer.save() of create().
TeamCreateSave(r) ==
    /\ r \in DOMAIN reqs
    /\ reqs[r].op = "team_create"
    /\ teams' = Append(teams, NewTeam(reqs[r].name, reqs[r].user))
    /\ resp' = Response("team_create", Len(teams) + 1, None, 201, "")
    /\ reqs' = Without(reqs, r)
    /\ UNCHANGED <<league, subs, scrims, tournament>>

\* partial_update with op = "join", up to the write.
TeamJoinCheck(user, pk, key_ok) ==
    /\ Len(reqs) < MaxReqs
    /\ IF TeamDenied # 0
       THEN /\ resp' = Response("join", pk, None, TeamDenied, "denied")
            /\ UNCHANGED reqs
       ELSE IF pk \notin TeamQueryset
       THEN /\ resp' = Response("join", pk, None, 404, "Team not found")
            /\ UNCHANGED reqs
       ELSE LET out == TeamJoinOutcome(user, pk, key_ok)
            IN  IF out.code = 200
                THEN /\ reqs' = Append(reqs, TeamRequest("join", user, pk, None, teams[pk]))
                     /\ UNCHANGED resp
                ELSE /\ resp' = Response("join", pk, None, out.code, out.msg)
                     /\ UNCHANGED reqs
    /\ UNCHANGED <<league, teams, subs, scrims, tournament>>

\* team.users.add(request.user.id) on the roster as it is now, then
\* team.save() of the instance the request read.
TeamJoinAdd(r) ==
    /\ r \in DOMAIN reqs
    /\ reqs[r].op = "join"
    /\ LET pk == reqs[r].pk
       IN  /\ teams' = [teams EXCEPT ![pk] =
                           TeamJoined([reqs[r].team EXCEPT !.users = teams[pk].users],
                                      reqs[r].user)]
           /\ resp' = Response("join", pk, None, 200, "")
    /\ reqs' = Without(reqs, r)
    /\ UNCHANGED <<league, subs, scrims, tournament>>

\* ====================================================== TournamentViewSet
\* A game of a tournament between team 1 and team 2 is the list of its
\* matches' winners, in the order the matches were played.
GameTeams == 1..2
GameResults == UNION {[1..n -> GameTeams] : n \in 0..MaxMatches}
Tournaments ==
    [hidden : BOOLEAN, games : UNION {[1..n -> GameResults] : n \in 1..MaxGames}]

\* queryset: Tournament.objects.all().exclude(hidden=True)
TournamentQueryset == IF tournament.hidden THEN {} ELSE {tournament}

BracketResponse(op, format, code, games) ==
    [op |-> op, format |-> format, code |-> code, games |-> games]

\* RetrieveModelMixin.retrieve: get_object() on the queryset.
TournamentRetrieve ==
    /\ resp' = IF tournament \in TournamentQueryset
               THEN BracketResponse("retrieve", None, 200, None)
               ELSE BracketResponse("retrieve", None, 404, None)
    /\ UNCHANGED <<league, teams, subs, scrims, reqs, tournament>>

\* bracket(self): the router calls the handler with the request and the
\* keyword arguments of the URL, which a method that takes only self does
\* not accept; the TypeError is answered 500.  The body is `pass`: no
\* statement reads the tournament, its hidden flag or the format.
TournamentBracket(format) ==
    /\ resp' = BracketResponse("bracket", format, 500, None)
    /\ UNCHANGED <<league, teams, subs, scrims, reqs, tournament>>

\* --------------------------------------------------------------- league
\* The league's flags are set from outside the views (the admin).
SetLeague(active, enabled) ==
    /\ league' = [active |-> active, submissions_enabled |-> enabled]
    /\ league' # league
    /\ resp' = Response("admin", None, None, 200, "")
    /\ UNCHANGED <<teams, subs, scrims, reqs, tournament>>

\* ------------------------------------------------------------ behaviours
\* Three one-member teams.  User 1 is on team 1; users 2 and 3 are on teams
\* 3 and 2, so a user id and the id of that user's team agree for one team
\* and differ for the other two.
Roster == [t \in TeamIds |-> IF t = 1 THEN {1} ELSE IF t = 2 THEN {3} ELSE {2}]

\* Team 1 auto-accepts ranked scrimmages only, team 2 unranked ones only,
\* team 3 none.
Init ==
    /\ league = [active |-> TRUE, submissions_enabled |-> TRUE]
    /\ teams = [t \in TeamIds |-> [name |-> 10 + t, users |-> Roster[t], deleted |-> FALSE,
                                   auto_accept_ranked |-> t = 1,
                                   auto_accept_unranked |-> t = 2]]
    /\ subs = InitialSubmissions
    /\ scrims = << >>
    /\ resp = Response("init", None, None, 0, "")
    /\ reqs = << >>
    /\ tournament = None

Next ==
    \/ \E u \in Users : SubmissionCreate(u)
    \/ \E u \in Users, r \in RequestIds, b \in RequestIds, m \in MapIds, k \in BOOLEAN :
          ScrimmageCreate(u, r, b, m, k)
    \/ \E u \in Users, pk \in 1..MaxScrims : ScrimmageAccept(u, pk)
    \/ \E u \in Users, pk \in 1..MaxScrims : ScrimmageReject(u, pk)
    \/ \E u \in Users, pk \in 1..MaxScrims : ScrimmageCancel(u, pk)

Spec == Init /\ [][Next]_vars

\* The same requests, with accept taken one database access at a time.
NextConc ==
    \/ \E u \in Users : SubmissionCreate(u)
    \/ \E u \in Users, r \in RequestIds, b \in RequestIds, m \in MapIds, k \in BOOLEAN :
          ScrimmageCreate(u, r, b, m, k)
    \/ \E u \in Users, pk \in 1..MaxScrims : AcceptRead(u, pk)
    \/ \E r \in 1..MaxReqs : AcceptRedLookup(r)
    \/ \E r \in 1..MaxReqs : AcceptBlueLookup(r)
    \/ \E r \in 1..MaxReqs : AcceptSave(r)
    \/ \E u \in Users, pk \in 1..MaxScrims : ScrimmageReject(u, pk)
    \/ \E u \in Users, pk \in 1..MaxScrims : ScrimmageCancel(u, pk)

SpecConc == Init /\ [][NextConc]_vars

\* Team requests alone, one at a time, from a league without teams.
InitTeam ==
    /\ league = [active |-> TRUE, submissions_enabled |-> TRUE]
    /\ teams = << >>
    /\ subs = << >>
    /\ scrims = << >>
    /\ resp = Response("init", None, None, 0, "")
    /\ reqs = << >>
    /\ tournament = None

NextTeam ==
    \/ \E u \in TeamUsers, n \in TeamNames \cup {None} : TeamCreate(u, n)
    \/ \E u \in TeamUsers, pk \in 1..MaxTeams, k \in BOOLEAN : TeamJoin(u, pk, k)
    \/ \E u \in TeamUsers, pk \in 1..MaxTeams : TeamLeave(u, pk)
    \/ \E u \in TeamUsers, pk \in 1..MaxTeams, r \in BOOLEAN : TeamUpdate(u, pk, r)
    \/ \E u \in TeamUsers, pk \in 1..MaxTeams : TeamInvalidOp(u, pk)

SpecTeam == InitTeam /\ [][NextTeam]_vars

\* Team requests of two users whose steps interleave, and the scrimmage
\* requests these users make meanwhile.
ConcUsers == 1..2

NextTeamConc ==
    \/ \E u \in ConcUsers, n \in TeamNames : TeamCreateCheck(u, n)
    \/ \E r \in 1..MaxReqs : TeamCreateSave(r)
    \/ \E u \in ConcUsers, pk \in 1..MaxTeams, k \in BOOLEAN : TeamJoinCheck(u, pk, k)
    \/ \E r \in 1..MaxReqs : TeamJoinAdd(r)
    \/ \E u \in ConcUsers, pk \in 1..MaxTeams : TeamLeave(u, pk)
    \/ \E u \in ConcUsers, r \in RequestIds, b \in RequestIds, m \in MapIds, k \in BOOLEAN :
          ScrimmageCreate(u, r, b, m, k)

SpecTeamConc == InitTeam /\ [][NextTeamConc]_vars

\* Scrimmage requests for red 2 against blue 1 on the visible map and the
\* team requests of a fourth user, while the league's flags are switched
\* from outside.  The fourth user's requests name team 3 and the teams
\* created, ask for one name and switch auto_accept_ranked on.
LeaguePks == Len(Roster)..(Len(Roster) + MaxTeams)

NextLeague ==
    \/ \E a \in BOOLEAN, e \in BOOLEAN : SetLeague(a, e)
    \/ \E u \in Users, k \in BOOLEAN :
          ScrimmageCreate(u, 2, 1, 1, k)
    \/ \E u \in Users, pk \in 1..MaxScrims : ScrimmageAccept(u, pk)
    \/ \E u \in Users, pk \in 1..MaxScrims : ScrimmageReject(u, pk)
    \/ \E u \in Users, pk \in 1..MaxScrims : ScrimmageCancel(u, pk)
    \/ \E u \in LeagueUsers : TeamCreate(u, 1)
    \/ \E u \in LeagueUsers, pk \in LeaguePks, k \in BOOLEAN : TeamJoin(u, pk, k)
    \/ \E u \in LeagueUsers, pk \in LeaguePks : TeamLeave(u, pk)
    \/ \E u \in LeagueUsers, pk \in LeaguePks : TeamUpdate(u, pk, TRUE)

SpecLeague == Init /\ [][NextLeague]_vars

\* Requests for one tournament of the league, hidden or not.
InitBracket ==
    /\ league = [active |-> TRUE, submissions_enabled |-> TRUE]
    /\ teams = << >>
    /\ subs = << >>
    /\ scrims = << >>
    /\ resp = Response("init", None, None, 0, "")
    /\ reqs = << >>
    /\ tournament \in Tournaments

NextBracket ==
    \/ TournamentRetrieve
    \/ \E f \in {"replay", "website"} : TournamentBracket(f)

SpecBracket == InitBracket /\ [][NextBracket]_vars

\* ================================================================ claims
Transitions == {"accept", "reject", "cancel"}

\* The participant of a scrimmage that did not request it.
OtherTeam(s) == IF s.requested_by = s.red_team THEN s.blue_team ELSE s.red_team

\* The last request was `op`, it succeeded, and it was about a stored row.
Succeeded(op, code) == resp.op = op /\ resp.code = code /\ resp.sid \in DOMAIN scrims

\* C1: after a successful create, if the non-requesting team auto-accepts the
\* scrimmage's rankedness the stored row is queued and its red and blue
\* submissions are the stored red and blue teams' latest submissions;
\* otherwise it is pending with both submissions unset.
C1_CreateAutoAccept ==
    Succeeded("create", 201) =>
        LET s == scrims[resp.sid]
        IN  IF AutoAccepts(OtherTeam(s), s.ranked)
            THEN /\ s.status = "queued"
                 /\ s.red_submission = get_submission(s.red_team)
                 /\ s.blue_submission = get_submission(s.blue_team)
            ELSE /\ s.status = "pending"
                 /\ s.red_submission = None
                 /\ s.blue_submission = None

\* C2: after a successful accept the acting team is the participant that did
\* not request the scrimmage, the stored row is queued, and its red and blue
\* submissions are each team's latest submission as of the accept.
C2_AcceptBindsLatest ==
    Succeeded("accept", 200) =>
        LET s == scrims[resp.sid]
        IN  /\ resp.team # s.requested_by
            /\ resp.team \in {s.red_team, s.blue_team}
            /\ s.status = "queued"
            /\ s.red_submission # None
            /\ s.blue_submission # None
            /\ s.red_submission = get_submission(s.red_team)
            /\ s.blue_submission = get_submission(s.blue_team)

\* An accept has bound a submission uploaded after the scrimmage was requested.
C2_Witness ==
    /\ Succeeded("accept", 200)
    /\ LET s == scrims[resp.sid]
       IN  \/ subs[s.red_submission].submitted_at > s.requested_at
           \/ subs[s.blue_submission].submitted_at > s.requested_at

\* C3: after a successful reject the stored row has status rejected.
C3_RejectStored ==
    Succeeded("reject", 200) => scrims[resp.sid].status = "rejected"

\* C4: after a successful cancel the stored row has status cancelled.
C4_CancelStored ==
    Succeeded("cancel", 200) => scrims[resp.sid].status = "cancelled"

\* C5: once an accept, reject or cancel of a scrimmage has succeeded, no
\* later accept, reject or cancel of it succeeds (stated for the request that
\* follows the successful one).
C5_TerminalOnce ==
    [][~(/\ resp.op \in Transitions /\ resp.code = 200
         /\ resp'.op \in Transitions /\ resp'.code = 200
         /\ resp'.sid = resp.sid
         /\ resp' # resp)]_vars

\* C6: accept, reject or cancel of a row whose stored status is not pending
\* returns an error and leaves the Scrimmage table as it was.
C6_NonPendingFails ==
    [][(/\ resp'.op \in Transitions
        /\ resp'.sid \in DOMAIN scrims
        /\ scrims[resp'.sid].status # "pending")
       => (resp'.code # 200 /\ scrims' = scrims)]_vars

\* A transition was refused because the row was not pending.
C6_Witness ==
    /\ resp.op \in Transitions
    /\ resp.code = 400
    /\ resp.msg = "Scrimmage is not pending."
    /\ scrims[resp.sid].status = "queued"
    /\ scrims[resp.sid].red_team # scrims[resp.sid].blue_team

\* C7: accept and reject succeed only for the participant that did not request
\* the scrimmage, cancel only for the requesting team; a call by any other
\* team fails and leaves the Scrimmage table as it was.
RightSide(op, team, s) ==
    IF op = "cancel"
    THEN team = s.requested_by
    ELSE team # s.requested_by /\ team \in {s.red_team, s.blue_team}

C7_OnlyRightSide ==
    [][(/\ resp'.op \in Transitions
        /\ resp'.sid \in DOMAIN scrims
        /\ ~RightSide(resp'.op, resp'.team, scrims[resp'.sid]))
       => (resp'.code # 200 /\ scrims' = scrims)]_vars

\* The requesting team tried to accept its own pending scrimmage.
C7_Witness ==
    /\ resp.op = "accept"
    /\ resp.code = 400
    /\ resp.msg = "Cannot accept an outgoing scrimmage."
    /\ scrims[resp.sid].requested_by = resp.team
    /\ scrims[resp.sid].status = "pending"
    /\ scrims[resp.sid].red_team # scrims[resp.sid].blue_team

\* C8: of the accept requests on one scrimmage, at most one succeeds.
C8_OneWinner ==
    \A r1 \in DOMAIN reqs, r2 \in DOMAIN reqs :
        (r1 # r2 /\ reqs[r1].pk = reqs[r2].pk /\ reqs[r1].code = 200) => reqs[r2].code # 200

\* C9: the requesting team of every stored scrimmage is its red or its blue
\* team, and its red and blue teams differ.
C9_TeamsDistinct ==
    \A i \in DOMAIN scrims :
        /\ scrims[i].requested_by \in {scrims[i].red_team, scrims[i].blue_team}
        /\ scrims[i].red_team # scrims[i].blue_team

\* C10: a stored scrimmage has both submissions set if it is queued and both
\* unset if it is pending, rejected or cancelled.
C10_BoundIffQueued ==
    \A i \in DOMAIN scrims :
        IF scrims[i].status = "queued"
        THEN scrims[i].red_submission # None /\ scrims[i].blue_submission # None
        ELSE /\ scrims[i].status \in {"pending", "rejected", "cancelled"}
             /\ scrims[i].red_submission = None
             /\ scrims[i].blue_submission = None

\* An accept has moved a pending scrimmage, with nothing bound, into queued.
C10_Witness ==
    /\ Succeeded("accept", 200)
    /\ scrims[resp.sid].status = "queued"
    /\ scrims[resp.sid].red_submission # None
    /\ scrims[resp.sid].blue_submission # None

\* ---------------------------------------------------------------- teams
RosterSize(t) == Cardinality(teams[t].users)

\* C16: every non-deleted team has between 1 and 4 users after every team
\* request, and a join to a team that already has 4 users fails and leaves
\* every roster as it was.
C16_RosterBounds ==
    [][ /\ \A t \in DOMAIN teams' :
              ~teams'[t].deleted =>
                  /\ Cardinality(teams'[t].users) >= 1
                  /\ Cardinality(teams'[t].users) <= 4
        /\ \A pk \in DOMAIN teams :
              (resp'.op = "join" /\ resp'.team = pk /\ ~teams[pk].deleted
                  /\ RosterSize(pk) = 4)
              => (resp'.code # 200 /\ teams' = teams) ]_vars

\* A fifth user's join to a team of four was refused for the size of the roster.
C16_Witness ==
    /\ resp.op = "join" /\ resp.code = 400
    /\ resp.msg = "Team has max number of users"
    /\ resp.team \in TeamQueryset
    /\ RosterSize(resp.team) = 4

\* C17: a team is deleted exactly when its roster is empty (so the last
\* member's leave deletes it and any other member's leave does not), and a
\* deleted team stays as it is: a join, leave or update that names it is
\* answered not found.
C17_DeletedIffEmpty ==
    [][ /\ \A t \in DOMAIN teams' : teams'[t].deleted <=> teams'[t].users = {}
        /\ \A t \in DOMAIN teams :
              teams[t].deleted =>
                  /\ teams'[t] = teams[t]
                  /\ (league.active /\ resp'.op \in {"join", "leave", "update"}
                         /\ resp'.team = t) => resp'.code = 404 ]_vars

\* One team lost its last member, another lost a member and lives on, and a
\* request that named the deleted one was answered not found.
C17_Witness ==
    /\ resp.op \in {"join", "leave", "update"} /\ resp.code = 404
    /\ resp.team \in DOMAIN teams
    /\ teams[resp.team].deleted /\ teams[resp.team].users = {}
    /\ \E t \in TeamQueryset : RosterSize(t) >= 1

\* C15: every user is on the roster of at most one non-deleted team, also
\* when the steps of two joins, or of a create and a join, interleave.
C15_OneTeamPerUser ==
    \A u \in ConcUsers : Cardinality({t \in TeamQueryset : u \in teams[t].users}) <= 1

\* ------------------------------------------------------- team resolution
MultiTeam(user_id) == Cardinality(TeamsOfUser(user_id)) > 1

\* A create by `user` naming red_team_id and blue_team_id comes to resolve a
\* team for an id that is on more than one: the user's own, or the other
\* side's once the user's team is one of the two named.
ResolvesMany(user, red_team_id, blue_team_id) ==
    /\ LeagueOpen
    /\ \/ MultiTeam(user)
       \/ /\ get_team(user) \notin {None, InternalError}
          /\ \/ get_team(user) = blue_team_id /\ MultiTeam(red_team_id)
             \/ /\ get_team(user) # blue_team_id
                /\ get_team(user) = red_team_id
                /\ MultiTeam(blue_team_id)

\* C14: a scrimmage create that resolves a team for an id found on more than
\* one team is answered 500 and stores nothing, whether the id is the
\* requesting user's or the other side's.
C14_ManyTeamsIs500 ==
    [][ \A u \in ConcUsers, r \in RequestIds, b \in RequestIds, m \in MapIds, k \in BOOLEAN :
            (ResolvesMany(u, r, b) /\ ScrimmageCreate(u, r, b, m, k))
            => (resp'.code = 500 /\ scrims' = scrims) ]_vars

\* ------------------------------------------------------------ league gate
\* The step is `user`'s accept, reject or cancel of scrimmage pk.
TransitionBy(op, user, pk) ==
    IF op = "accept" THEN ScrimmageAccept(user, pk)
    ELSE IF op = "reject" THEN ScrimmageReject(user, pk)
    ELSE ScrimmageCancel(user, pk)

\* `user` is on the team whose call `op` is, and the scrimmage is pending,
\* while the league is active with submissions disabled.
RightCallSubmissionsOff(op, user, pk) ==
    /\ league.active /\ ~league.submissions_enabled
    /\ pk \in DOMAIN scrims
    /\ scrims[pk].status = "pending"
    /\ get_team(user) \notin {None, InternalError}
    /\ RightSide(op, get_team(user), scrims[pk])

\* C12 as stated: with the league active and submissions disabled, the right
\* team's accept, reject or cancel of a pending scrimmage is not denied.
C12_TransitionsIgnoreToggle ==
    [][ \A op \in Transitions, u \in Users, pk \in 1..MaxScrims :
            (RightCallSubmissionsOff(op, u, pk) /\ TransitionBy(op, u, pk))
            => resp'.code # 403 ]_vars

\* C12, amended: accept, reject and cancel pass the same gate as create; with
\* the league active and submissions disabled the right team's call on a
\* pending scrimmage is denied with 403 and the scrimmage stays as it was.
C12_TransitionsGated ==
    [][ \A op \in Transitions, u \in Users, pk \in 1..MaxScrims :
            (RightCallSubmissionsOff(op, u, pk) /\ TransitionBy(op, u, pk))
            => (resp'.code = 403 /\ scrims' = scrims) ]_vars

\* A transition of a pending scrimmage was denied with the league active and
\* submissions disabled.
C12_Witness ==
    /\ league.active /\ ~league.submissions_enabled
    /\ resp.op \in Transitions /\ resp.code = 403
    /\ resp.sid \in DOMAIN scrims
    /\ scrims[resp.sid].status = "pending"
    /\ scrims[resp.sid].red_team # scrims[resp.sid].blue_team

MutatingOps ==
    {"create", "accept", "reject", "cancel", "team_create", "join", "leave", "update"}

\* C13: while the league is inactive every scrimmage create, accept, reject
\* and cancel and every team create, join, leave and update is answered 403
\* and changes no scrimmage and no team; a scrimmage create is answered 403
\* as well when submissions are disabled.
C13_InactiveLeagueDenies ==
    [][ /\ (resp'.op \in MutatingOps /\ ~league.active)
              => (resp'.code = 403 /\ scrims' = scrims /\ teams' = teams)
        /\ (resp'.op = "create" /\ ~league.submissions_enabled)
              => (resp'.code = 403 /\ scrims' = scrims) ]_vars

\* With the league inactive a member's leave was denied while a pending
\* scrimmage waits for its accept.
C13_Witness ==
    /\ ~league.active
    /\ resp.op = "leave" /\ resp.code = 403
    /\ resp.team \in TeamQueryset
    /\ LeagueUsers \subseteq teams[resp.team].users
    /\ \E pk \in DOMAIN scrims : scrims[pk].status = "pending"

\* ---------------------------------------------------------------- bracket
\* Best of three: the matches team t has won among the first n of game g.
WinsIn(g, t, n) == Cardinality({i \in 1..n : g[i] = t})

Decided(g, n) == \E t \in GameTeams : WinsIn(g, t, n) >= 2

\* The shortest prefix in which a team has 2 wins, or every recorded match.
DecidingPrefix(g) ==
    IF Decided(g, Len(g))
    THEN CHOOSE n \in 1..Len(g) : Decided(g, n) /\ \A k \in 1..(n - 1) : ~Decided(g, k)
    ELSE Len(g)

\* The team with 2 wins within the deciding prefix, None if there is none.
GameWinner(g) ==
    IF Decided(g, Len(g))
    THEN CHOOSE t \in GameTeams : WinsIn(g, t, DecidingPrefix(g)) >= 2
    ELSE None

\* C18: the bracket of a visible tournament reports for every game the
\* winner of the best of three (none when no team has 2 wins), and in replay
\* format exactly the matches of the deciding prefix.
C18_BestOfThree ==
    (resp.op = "bracket" /\ ~tournament.hidden)
    => /\ resp.code = 200
       /\ DOMAIN resp.games = DOMAIN tournament.games
       /\ \A i \in DOMAIN tournament.games :
             /\ resp.games[i].winner_id = GameWinner(tournament.games[i])
             /\ resp.format = "replay"
                   => resp.games[i].winner_ids =
                         SubSeq(tournament.games[i], 1, DecidingPrefix(tournament.games[i]))

\* C19: a bracket request for a hidden tournament is answered not found in
\* both formats, and one for a visible tournament is answered with a bracket.
C19_HiddenNotFound ==
    resp.op = "bracket"
    => IF tournament.hidden
       THEN resp.code = 404
       ELSE resp.code = 200 /\ resp.games # None

\* --------------------------------------------------------------- scenario
\* A ranked scrimmage requested by a team R that does not auto-accept ranked
\* scrimmages against a team B that does.
ScenarioRow(s) ==
    /\ s.ranked
    /\ s.red_team # s.blue_team
    /\ ~teams[s.requested_by].auto_accept_ranked
    /\ teams[OtherTeam(s)].auto_accept_ranked

FirstFailure(team, red_team_id, blue_team_id, map_id) ==
    LET other == IF team = blue_team_id THEN red_team_id ELSE blue_team_id
    IN  IF team \notin {red_team_id, blue_team_id}
            THEN [code |-> 400, msg |-> "Scrimmage does not include my team"]
        ELSE IF other \notin TeamQueryset
            THEN [code |-> 404, msg |-> "Requested team does not exist"]
        ELSE IF get_map(map_id) = None
            THEN [code |-> 404, msg |-> "Requested map does not exist"]
        ELSE IF get_submission(red_team_id) = None \/ get_submission(blue_team_id) = None
            THEN [code |-> 400, msg |-> "Teams do not have submissions"]
        ELSE [code |-> 201, msg |-> ""]

\* C11: a permitted create is answered with the error of the first failing
\* precondition, in the order (1) the requesting team is red or blue, (2) the
\* other team exists, (3) the map is visible, (4) both teams have a
\* submission; a failed create stores nothing.
C11_FirstFailureWins ==
    [][ \A u \in Users, r \in RequestIds, b \in RequestIds, m \in MapIds, k \in BOOLEAN :
            (Denied(u) = 0 /\ ScrimmageCreate(u, r, b, m, k))
            => LET first == FirstFailure(get_team(u), r, b, m)
               IN  /\ resp'.code = first.code
                   /\ resp'.msg = first.msg
                   /\ first.code # 201 => scrims' = scrims ]_vars

\* ------------------------------------------------------ create by team id
\* Submission `sid` is unset or was uploaded by team `team_id`.
BelongsTo(sid, team_id) == sid = None \/ (sid \in DOMAIN subs /\ subs[sid].team = team_id)

\* C21: a successful create stores as red and blue team the teams whose ids
\* the request names, a request whose other team id names no team is
\* answered "Requested team does not exist", and a submission bound at
\* creation belongs to the stored team of its side.
C21_CreateByTeamId ==
    [][ \A u \in Users, r \in RequestIds, b \in RequestIds, m \in MapIds, k \in BOOLEAN :
            (Denied(u) = 0 /\ get_team(u) \in {r, b} /\ ScrimmageCreate(u, r, b, m, k))
            => LET other == IF get_team(u) = b THEN r ELSE b
               IN  /\ other \notin TeamQueryset
                      => (resp'.code = 404 /\ resp'.msg = "Requested team does not exist")
                   /\ resp'.code = 201
                      => LET s == scrims'[resp'.sid]
                         IN  /\ s.red_team = r
                             /\ s.blue_team = b
                             /\ BelongsTo(s.red_submission, s.red_team)
                             /\ BelongsTo(s.blue_submission, s.blue_team) ]_vars

\* ------------------------------------------------ accept without submission
\* The last request was the accept of a stored scrimmage by its participant
\* that did not request it, and one of its teams has no submission.
AcceptWithoutSubmission ==
    /\ resp.op = "accept"
    /\ resp.sid \in DOMAIN scrims
    /\ resp.team \in {scrims[resp.sid].red_team, scrims[resp.sid].blue_team}
    /\ resp.team # scrims[resp.sid].requested_by
    /\ \/ get_submission(scrims[resp.sid].red_team) = None
       \/ get_submission(scrims[resp.sid].blue_team) = None

\* C22: an accept made while a participating team has no submission does not
\* succeed; on a pending scrimmage it is answered 500 and the stored row
\* stays pending with both submission references unset.
C22_AcceptNeedsSubmissions ==
    AcceptWithoutSubmission =>
        LET s == scrims[resp.sid]
        IN  /\ resp.code # 200
            /\ s.status = "pending"
                  => /\ resp.code = 500
                     /\ resp.msg = "Teams should have submissions if queued"
                     /\ s.red_submission = None
                     /\ s.blue_submission = None

\* The accept of a pending scrimmage whose red team has no submission was
\* answered 500.
C22_Witness ==
    /\ AcceptWithoutSubmission
    /\ resp.code = 500
    /\ scrims[resp.sid].status = "pending"
    /\ scrims[resp.sid].red_team # scrims[resp.sid].blue_team

\* ------------------------------------------------------------- outsiders
\* C23: an accept, reject or cancel by a team that is neither the red nor
\* the blue team of the scrimmage is answered 404 and changes no stored
\* scrimmage, whatever the scrimmage's status.
C23_OutsiderNotFound ==
    [][ (/\ resp'.op \in Transitions
         /\ resp'.team # None
         /\ resp'.sid \in DOMAIN scrims
         /\ resp'.team \notin {scrims[resp'.sid].red_team, scrims[resp'.sid].blue_team})
        => (/\ resp'.code = 404
            /\ resp'.msg = "Scrimmage does not exist."
            /\ scrims' = scrims) ]_vars

\* A team outside a queued scrimmage between two other teams asked for one of
\* the three transitions and was answered not found.
C23_Witness ==
    /\ resp.op \in Transitions /\ resp.code = 404
    /\ resp.team # None
    /\ resp.sid \in DOMAIN scrims
    /\ resp.team \notin {scrims[resp.sid].red_team, scrims[resp.sid].blue_team}
    /\ scrims[resp.sid].red_team # scrims[resp.sid].blue_team
    /\ scrims[resp.sid].status = "queued"

====
